---- MODULE Spec2Model ----
(***************************************************************************)
(* Round lifecycle of the multiplayer Target Word game: the socket handler *)
(* (src/socket/handler.js) over the state module (src/game/state.js).      *)
(*                                                                         *)
(* Node runs every handler to its first await and every continuation to    *)
(* its next await without interleaving, so one action is one socket event  *)
(* handled up to its first await, or one continuation of a remote call.    *)
(* The remote calls in flight are the bag `inflight`.                      *)
(***************************************************************************)
EXTENDS Integers, Sequences, FiniteSets, Bags, TLC

\* ------------------------------------------------------------------ bounds
\* Connections ever accepted (socket ids are never reused).
MaxConn == 3
\* Remote calls in flight at the same time.
MaxInflight == 2

\* --------------------------------------------------------------- constants
MAX_PLAYERS == 2

\* bestScore starts at -Infinity: below every score (scores are in units of
\* 1e-5, within [-100000, 100000]).
NegInfinity == -1000000

Ids == 1 .. MaxConn
\* null for a slot pointer.
NoId == 0

P1 == "Player 1"
P2 == "Player 2"
SPECTATOR == "Spectator"
\* An id with no entry in _playerSockets.
NoRole == "none"

\* null for targetWord / targetVector.
NoWord == "null"
NoVector == <<>>
\* The vector the service returns for a word: an opaque value tied to the word.
VectorOf(w) == <<"vec", w>>

\* The word list the Python service serves on /get-words.
ServiceWords == <<"ocean">>

\* Similarity scores the service may answer, in units of 1e-5.
Scores == {81000, 81004}

\* Payloads of submit_expression: strings (as character sequences: a blank
\* one and " sea") and a non-string value (undefined, an object, a number).
StringPayloads == { <<" ">>, <<" ", "s", "e", "a">> }
Payloads == [isString : {TRUE}, text : StringPayloads]
              \cup {[isString |-> FALSE, text |-> <<>>]}

VARIABLES
    connected,          \* sockets whose handlers are registered
    nextId,             \* the id the next connection gets
    playerSockets,      \* state._playerSockets: id -> role (NoRole: absent)
    player1,            \* state._player1
    player2,            \* state._player2
    gameActive,         \* state._gameActive
    targetWord,         \* handler closure: targetWord
    targetVector,       \* handler closure: targetVector
    playerSubmissions,  \* handler closure: playerSubmissions, in insertion order
    wordList,           \* handler closure: wordList
    inflight,           \* remote calls awaiting their response (a bag)
    emits,              \* the events the last step emitted, in order
    last                \* the last step: its kind, socket and captured role (Step)

vars == << connected, nextId, playerSockets, player1, player2, gameActive,
           targetWord, targetVector, playerSubmissions, wordList, inflight,
           emits, last >>

\* ----------------------------------------------------------------- helpers
Range(s) == { s[k] : k \in 1 .. Len(s) }

\* String.prototype.trim on a character sequence.
RECURSIVE TrimLeft(_)
TrimLeft(t) == IF t # <<>> /\ Head(t) = " " THEN TrimLeft(Tail(t)) ELSE t
RECURSIVE TrimRight(_)
TrimRight(t) ==
    IF t # <<>> /\ t[Len(t)] = " " THEN TrimRight(SubSeq(t, 1, Len(t) - 1)) ELSE t
Trim(t) == TrimRight(TrimLeft(t))

\* Number.prototype.toFixed(4) of a score in units of 1e-5: the score rounded
\* to units of 1e-4 (half away from zero).
ToFixed4(s) == IF s >= 0 THEN (s + 5) \div 10 ELSE - ((5 - s) \div 10)

\* An emitted event; `to` is AllSockets for io.emit, the socket id for socket.emit.
AllSockets == 0
Emit(type, to, data) == [type |-> type, to |-> to, data |-> data]
NoData == [none |-> TRUE]
EmitTypes(es) == [k \in 1 .. Len(es) |-> es[k].type]
HasEmit(es, type) == \E k \in 1 .. Len(es) : es[k].type = type

\* The step just taken: its kind (a continuation that took its error path is
\* a kind of its own: "calcFailed"), the socket it belongs to, and what the
\* handler captured on entry: the socket's role (assignedRole, playerInfo.role)
\* and, for a disconnect, wasActiveGame.
Step(kind, id, role, active) ==
    [kind |-> kind, id |-> id, role |-> role, active |-> active]

\* A remote call in flight and what its continuation still holds.
Task(kind, id, role, expr, word) ==
    [kind |-> kind, id |-> id, role |-> role, expr |-> expr, word |-> word]
InitFetch == Task("initFetch", NoId, NoRole, <<>>, NoWord)
StartFetch == Task("startFetch", NoId, NoRole, <<>>, NoWord)
StartEmbed(w) == Task("startEmbed", NoId, NoRole, <<>>, w)
SubmitCalc(id, role, expr) == Task("submitCalc", id, role, expr, NoWord)
SubmitCompare(id, role, expr) == Task("submitCompare", id, role, expr, NoWord)

Put(b, t) == b (+) SetToBag({t})
Take(b, t) == b (-) SetToBag({t})
\* The model issues a remote call only while fewer than MaxInflight are pending.
HasRoom == BagCardinality(inflight) < MaxInflight

\* Object.values(players).filter(p => p.role !== 'Spectator')
CurrentPlayers(tbl) == { i \in DOMAIN tbl : tbl[i] \in {P1, P2} }
PlayerCount(tbl) == Cardinality(CurrentPlayers(tbl))

\* playerSubmissions[id]
SubIndex(subs, id) == { k \in 1 .. Len(subs) : subs[k].id = id }
HasSubmission(subs, id) == SubIndex(subs, id) # {}
SubmissionOf(subs, id) == subs[CHOOSE k \in SubIndex(subs, id) : TRUE]
\* playerSubmissions[id] = sub: a new key is appended, an existing key is
\* overwritten in place.
StoreSubmission(subs, id, sub) ==
    IF HasSubmission(subs, id)
    THEN [k \in 1 .. Len(subs) |-> IF subs[k].id = id THEN sub ELSE subs[k]]
    ELSE Append(subs, sub)

\* ------------------------------------------------------------ browser client
\* One browser running public/client.js. The texts its handlers write to the
\* page (status, error, role label, target word, submissions, results) are
\* never read back by a handler and are left out.
VARIABLES
    client,             \* myRole, gameActive, and the expression input's
                        \* disabled flag and value (the submit button's
                        \* disabled flag is always set together with the input's)
    seen                \* history: the event handled last, whether a
                        \* submit_expression was emitted since the last
                        \* game_start, whether it was acknowledged, and whether
                        \* the last step emitted one

clientVars == << client, seen >>

NoText == <<>>
InputTexts == {NoText} \cup StringPayloads

\* setInputActive(isActive)
SetInputActive(c, isActive) ==
    [c EXCEPT !.disabled = ~isActive,
              !.value = IF isActive THEN @ ELSE NoText]

\* clearGameAreas(): of what it clears, the input's value
ClearGameAreas(c) == [c EXCEPT !.value = NoText]

IsPlayer(role) == role \in {P1, P2}

\* The client after the script has run: `let` initialisers and the
\* "Initial Setup" calls.
ClientInit ==
    /\ client = [myRole |-> NoRole, gameActive |-> FALSE,
                 disabled |-> TRUE, value |-> NoText]
    /\ seen = [event |-> "load", submitted |-> FALSE,
               acknowledged |-> FALSE, emitted |-> FALSE]

\* A step of the server leaves the browser as it is.
ClientIdle == UNCHANGED clientVars

Init ==
    /\ ClientInit
    /\ connected = {}
    /\ nextId = 1
    /\ playerSockets = [i \in Ids |-> NoRole]
    /\ player1 = NoId
    /\ player2 = NoId
    /\ gameActive = FALSE
    /\ targetWord = NoWord
    /\ targetVector = NoVector
    /\ playerSubmissions = <<>>
    /\ wordList = <<>>
    /\ inflight = SetToBag({InitFetch})
    /\ emits = <<>>
    /\ last = Step("setup", NoId, NoRole, FALSE)

\* ------------------------------------------------------------ state module
\* Faulty variant: resetState() keeps the role table.
ResetStateKeepsSockets ==
    /\ player1' = NoId
    /\ player2' = NoId
    /\ gameActive' = FALSE
    /\ UNCHANGED playerSockets

\* Faulty variant: resetState() turns every participant into a Spectator.
ResetStateMakesSpectators ==
    /\ player1' = NoId
    /\ player2' = NoId
    /\ gameActive' = FALSE
    /\ playerSockets' = [i \in Ids |-> IF playerSockets[i] = NoRole
                                        THEN NoRole ELSE SPECTATOR]

\* Faulty variant: resetState() leaves the active flag as it is.
ResetStateKeepsActive ==
    /\ player1' = NoId
    /\ player2' = NoId
    /\ UNCHANGED gameActive
    /\ playerSockets' = [i \in Ids |-> NoRole]

\* Faulty variant: resetState() keeps the slot pointers.
ResetStateKeepsSlots ==
    /\ UNCHANGED << player1, player2 >>
    /\ gameActive' = FALSE
    /\ playerSockets' = [i \in Ids |-> NoRole]

\* state.resetState(): the handler reads only the slots, the flag and the
\* role table of the state module; its _targetWord, _targetVector,
\* _playerSubmissions and _currentPlayer are never written and stay null.
ResetState ==
    /\ player1' = NoId
    /\ player2' = NoId
    /\ gameActive' = FALSE
    /\ playerSockets' = [i \in Ids |-> NoRole]

\* ------------------------------------------------------------------ endGame
\* The role shown for a submission: playerInfo?.role, or "Player (" with the
\* id's first characters when the id has left the role table.
ResultRole(tbl, id) ==
    IF tbl[id] # NoRole THEN tbl[id] ELSE "Player (" \o ToString(id) \o ")"

\* One entry of results. Every stored score is a number (the submit handler
\* checks typeof before storing), so the "N/A" branch is never taken.
ResultOf(tbl, sub) ==
    [role |-> ResultRole(tbl, sub.id),
     expression |-> sub.expression,
     score |-> ToFixed4(sub.score)]

Results(subs, tbl) == [k \in 1 .. Len(subs) |-> ResultOf(tbl, subs[k])]

\* The forEach over Object.keys(playerSubmissions): the first strictly
\* greater score wins.
RECURSIVE Best(_, _, _, _)
Best(subs, k, bestScore, winnerId) ==
    IF k > Len(subs) THEN winnerId
    ELSE IF subs[k].score > bestScore
         THEN Best(subs, k + 1, subs[k].score, subs[k].id)
         ELSE Best(subs, k + 1, bestScore, winnerId)

WinnerId(subs) == Best(subs, 1, NegInfinity, NoId)

NoWinnerMsg == "It's a tie or no valid scores!"
WinnerMsg(subs, tbl) ==
    LET w == WinnerId(subs)
    IN  IF w # NoId /\ tbl[w] # NoRole THEN tbl[w] \o " wins!" ELSE NoWinnerMsg

MissingVectorMsg == "Error determining winner: Missing target vector."

\* Faulty variant: the missing-vector return emits nothing.
MissingVectorSilent == <<>>

\* What endGame() emits when the target vector is missing.
MissingVectorOver ==
    << Emit("game_over", AllSockets,
            [reason |-> MissingVectorMsg, results |-> <<>>, targetWord |-> "undefined"]) >>

\* Faulty variant: endGame() without the early return of an inactive round.
EndGameNoActiveCheck(subs, tbl, pre) ==
    IF targetVector = NoVector
    THEN /\ gameActive' = FALSE
         /\ UNCHANGED << targetWord, targetVector >>
         /\ playerSubmissions' = subs
         /\ emits' = pre \o MissingVectorOver
    ELSE /\ gameActive' = FALSE
         /\ emits' = Append(pre, Emit("game_over", AllSockets,
                [reason |-> WinnerMsg(subs, tbl), results |-> Results(subs, tbl),
                 targetWord |-> targetWord]))
         /\ targetWord' = NoWord
         /\ targetVector' = NoVector
         /\ playerSubmissions' = <<>>

\* endGame(), called with the submissions and the role table as the calling
\* handler has left them and the events it has emitted so far.
EndGame(subs, tbl, pre) ==
    IF ~gameActive
    THEN /\ UNCHANGED << gameActive, targetWord, targetVector >>
         /\ playerSubmissions' = subs
         /\ emits' = pre
    ELSE IF targetVector = NoVector
    THEN /\ gameActive' = FALSE
         /\ UNCHANGED << targetWord, targetVector >>
         /\ playerSubmissions' = subs
         /\ emits' = pre \o MissingVectorOver
    ELSE /\ gameActive' = FALSE
         /\ emits' = Append(pre, Emit("game_over", AllSockets,
                [reason |-> WinnerMsg(subs, tbl), results |-> Results(subs, tbl),
                 targetWord |-> targetWord]))
         /\ targetWord' = NoWord
         /\ targetVector' = NoVector
         /\ playerSubmissions' = <<>>

\* ---------------------------------------------------------------- startGame
WordListErrorMsg == "Server error: Could not load word list to start game."
EmbeddingErrorMsg == "Server error starting game: Could not get embedding for target word."

\* startGame() from "1. Choose a target word" on, the word list being non-empty:
\* pick a word and post /get-embedding. `rest` is the bag without the call
\* that has just completed.
ChooseTarget(rest) ==
    \E w \in Range(wordList') :
        /\ targetWord' = w
        /\ inflight' = Put(rest, StartEmbed(w))

\* startGame() up to its first await.
StartGame(pre) ==
    /\ gameActive' = TRUE
    /\ playerSubmissions' = <<>>
    /\ UNCHANGED << targetVector, wordList >>
    /\ emits' = pre
    /\ IF wordList = <<>>
       THEN /\ inflight' = Put(inflight, StartFetch)
            /\ UNCHANGED targetWord
       ELSE ChooseTarget(inflight)

\* fetchWordList() after its await: a non-empty list is stored, anything else
\* (an error, an empty or malformed answer) empties the list.
FetchedList(ok) == IF ok THEN ServiceWords ELSE <<>>

\* The initial fetchWordList() of setupSocketHandlers completes.
InitFetchDone(ok) ==
    /\ BagIn(InitFetch, inflight)
    /\ wordList' = FetchedList(ok)
    /\ inflight' = Take(inflight, InitFetch)
    /\ emits' = <<>>
    /\ last' = Step("initFetchDone", NoId, NoRole, FALSE)
    /\ UNCHANGED << connected, nextId, playerSockets, player1, player2,
                    gameActive, targetWord, targetVector, playerSubmissions >>

\* Faulty variant: the flag stays set when the list is still empty.
StartFetchDoneKeepsActive(ok) ==
    /\ BagIn(StartFetch, inflight)
    /\ wordList' = FetchedList(ok)
    /\ last' = Step("startFetchDone", NoId, NoRole, FALSE)
    /\ UNCHANGED << connected, nextId, playerSockets, player1, player2,
                    targetVector, playerSubmissions, gameActive >>
    /\ IF wordList' = <<>>
       THEN /\ emits' = << Emit("error_message", AllSockets, [text |-> WordListErrorMsg]) >>
            /\ inflight' = Take(inflight, StartFetch)
            /\ UNCHANGED targetWord
       ELSE /\ ChooseTarget(Take(inflight, StartFetch))
            /\ emits' = <<>>

\* startGame() resumes after await fetchWordList().
StartFetchDone(ok) ==
    /\ BagIn(StartFetch, inflight)
    /\ wordList' = FetchedList(ok)
    /\ last' = Step("startFetchDone", NoId, NoRole, FALSE)
    /\ UNCHANGED << connected, nextId, playerSockets, player1, player2,
                    targetVector, playerSubmissions >>
    /\ IF wordList' = <<>>
       THEN /\ emits' = << Emit("error_message", AllSockets, [text |-> WordListErrorMsg]) >>
            /\ gameActive' = FALSE
            /\ inflight' = Take(inflight, StartFetch)
            /\ UNCHANGED targetWord
       ELSE /\ ChooseTarget(Take(inflight, StartFetch))
            /\ emits' = <<>>
            /\ UNCHANGED gameActive

\* The players list of game_start.
PlayerInfo(tbl) == { [id |-> i, role |-> tbl[i]] : i \in CurrentPlayers(tbl) }

\* Faulty variant: the catch block leaves the flag set.
EmbedFailedKeepsActive ==
    /\ targetWord' = NoWord
    /\ targetVector' = NoVector
    /\ UNCHANGED gameActive
    /\ emits' = << Emit("error_message", AllSockets, [text |-> EmbeddingErrorMsg]) >>

\* Faulty variant: the catch block leaves the chosen word in place.
EmbedFailedKeepsWord ==
    /\ UNCHANGED targetWord
    /\ targetVector' = NoVector
    /\ gameActive' = FALSE
    /\ emits' = << Emit("error_message", AllSockets, [text |-> EmbeddingErrorMsg]) >>

\* The catch block of "2. Get target word embedding".
EmbedFailed ==
    /\ targetWord' = NoWord
    /\ targetVector' = NoVector
    /\ gameActive' = FALSE
    /\ emits' = << Emit("error_message", AllSockets, [text |-> EmbeddingErrorMsg]) >>

\* startGame() resumes after await axios.post(/get-embedding).
StartEmbedDone(w, ok) ==
    /\ BagIn(StartEmbed(w), inflight)
    /\ inflight' = Take(inflight, StartEmbed(w))
    /\ last' = Step(IF ok THEN "startEmbedDone" ELSE "startEmbedFailed",
                     NoId, NoRole, FALSE)
    /\ UNCHANGED << connected, nextId, playerSockets, player1, player2,
                    playerSubmissions, wordList >>
    /\ IF ok
       THEN /\ targetVector' = VectorOf(w)
            /\ emits' = << Emit("game_start", AllSockets,
                   [targetWord |-> targetWord, players |-> PlayerInfo(playerSockets)]) >>
            /\ UNCHANGED << targetWord, gameActive >>
       ELSE EmbedFailed

\* --------------------------------------------------------------- connection
\* Faulty variant: no Spectator fallback.
AssignedRoleNoSpectator == IF player1 = NoId THEN P1 ELSE P2

\* Faulty variant: the Player 2 slot is tried first.
AssignedRolePlayer2First ==
    IF PlayerCount(playerSockets) < MAX_PLAYERS /\ player2 = NoId THEN P2
    ELSE IF PlayerCount(playerSockets) < MAX_PLAYERS /\ player1 = NoId THEN P1
    ELSE SPECTATOR

\* "Player Joining Logic": the role a connection arriving now is given.
AssignedRole ==
    IF PlayerCount(playerSockets) < MAX_PLAYERS /\ player1 = NoId THEN P1
    ELSE IF PlayerCount(playerSockets) < MAX_PLAYERS /\ player2 = NoId THEN P2
    ELSE SPECTATOR

\* What the connecting socket is told when no game starts.
ConnectNotice(id, role, count) ==
    IF count < MAX_PLAYERS /\ role # SPECTATOR
    THEN << Emit("waiting_for_player", id, NoData) >>
    ELSE IF role = SPECTATOR
    THEN IF gameActive
         THEN << Emit("spectator_info", id,
                   [status |-> "Game in progress.", targetWord |-> targetWord,
                    submissions |-> playerSubmissions]) >>
         ELSE << Emit("spectator_info", id,
                   [status |-> "Waiting for players...", targetWord |-> "undefined",
                    submissions |-> <<>>]) >>
    ELSE <<>>

\* io.on('connection'): a new socket connects.
Connect ==
    /\ nextId <= MaxConn
    /\ LET id == nextId
           role == AssignedRole
           assigned == << Emit("assign_role", id, [role |-> role]) >>
       IN  /\ connected' = connected \cup {id}
           /\ nextId' = nextId + 1
           /\ playerSockets' = [playerSockets EXCEPT ![id] = role]
           /\ player1' = IF role = P1 THEN id ELSE player1
           /\ player2' = IF role = P2 THEN id ELSE player2
           /\ last' = Step("connect", id, role, FALSE)
           /\ IF PlayerCount(playerSockets') = MAX_PLAYERS /\ ~gameActive
              THEN /\ HasRoom
                   /\ StartGame(assigned)
              ELSE /\ emits' = assigned \o ConnectNotice(id, role, PlayerCount(playerSockets'))
                   /\ UNCHANGED << gameActive, targetWord, targetVector,
                                   playerSubmissions, wordList, inflight >>

\* Faulty variant: a Spectator's disconnect ends an active round as well.
DisconnectEndsForSpectator(i) ==
    /\ i \in connected
    /\ connected' = connected \ {i}
    /\ last' = Step("disconnect", i, playerSockets[i], gameActive)
    /\ UNCHANGED << nextId, wordList, inflight >>
    /\ LET role == playerSockets[i]
       IN  IF role = NoRole
           THEN /\ emits' = <<>>
                /\ UNCHANGED << playerSockets, player1, player2, gameActive,
                                targetWord, targetVector, playerSubmissions >>
           ELSE /\ player1' = IF role = P1 THEN NoId ELSE player1
                /\ player2' = IF role = P2 THEN NoId ELSE player2
                /\ playerSockets' = [playerSockets EXCEPT ![i] = NoRole]
                /\ IF gameActive
                   THEN EndGame(playerSubmissions, playerSockets',
                                << Emit("player_left", AllSockets, [role |-> role]) >>)
                   ELSE /\ emits' = <<>>
                        /\ UNCHANGED << gameActive, targetWord, targetVector,
                                        playerSubmissions >>

\* socket.on('disconnect')
Disconnect(i) ==
    /\ i \in connected
    /\ connected' = connected \ {i}
    /\ last' = Step("disconnect", i, playerSockets[i], gameActive)
    /\ UNCHANGED << nextId, wordList, inflight >>
    /\ LET role == playerSockets[i]
       IN  IF role = NoRole
           THEN /\ emits' = <<>>
                /\ UNCHANGED << playerSockets, player1, player2, gameActive,
                                targetWord, targetVector, playerSubmissions >>
           ELSE /\ player1' = IF role = P1 THEN NoId ELSE player1
                /\ player2' = IF role = P2 THEN NoId ELSE player2
                /\ playerSockets' = [playerSockets EXCEPT ![i] = NoRole]
                /\ IF role # SPECTATOR /\ gameActive
                   THEN EndGame(playerSubmissions, playerSockets',
                                << Emit("player_left", AllSockets, [role |-> role]) >>)
                   ELSE /\ emits' = <<>>
                        /\ UNCHANGED << gameActive, targetWord, targetVector,
                                        playerSubmissions >>

\* ------------------------------------------------------------------- submit
NotActiveMsg == "Game is not active."
SpectatorMsg == "Spectators cannot submit."
AlreadySubmittedMsg == "You have already submitted for this round."
InvalidExpressionMsg == "Invalid expression submitted."
NoTargetMsg == "Cannot submit: Target word not set correctly."
CalcErrorMsg == "Server error calculating your expression"
CompareErrorMsg == "Server error comparing your result"
Accepted == "accepted"

\* !expression || typeof expression !== 'string' || expression.trim().length === 0
InvalidExpression(p) == ~p.isString \/ Len(Trim(p.text)) = 0

\* Faulty variant: the already-submitted check is missing.
ValidateNoDuplicateCheck(i, p) ==
    IF ~gameActive THEN NotActiveMsg
    ELSE IF playerSockets[i] \in {NoRole, SPECTATOR} THEN SpectatorMsg
    ELSE IF InvalidExpression(p) THEN InvalidExpressionMsg
    ELSE IF targetVector = NoVector THEN NoTargetMsg
    ELSE Accepted

\* Faulty variant: the expression is not examined.
ValidateNoExpressionCheck(i, p) ==
    IF ~gameActive THEN NotActiveMsg
    ELSE IF playerSockets[i] \in {NoRole, SPECTATOR} THEN SpectatorMsg
    ELSE IF HasSubmission(playerSubmissions, i) THEN AlreadySubmittedMsg
    ELSE IF targetVector = NoVector THEN NoTargetMsg
    ELSE Accepted

\* "1. Validations": the error the submit is rejected with, or Accepted.
Validate(i, p) ==
    IF ~gameActive THEN NotActiveMsg
    ELSE IF playerSockets[i] \in {NoRole, SPECTATOR} THEN SpectatorMsg
    ELSE IF HasSubmission(playerSubmissions, i) THEN AlreadySubmittedMsg
    ELSE IF InvalidExpression(p) THEN InvalidExpressionMsg
    ELSE IF targetVector = NoVector THEN NoTargetMsg
    ELSE Accepted

\* socket.on('submit_expression') up to its first await.
SubmitExpression(i, p) ==
    /\ i \in connected
    /\ last' = Step("submit", i, playerSockets[i], FALSE)
    /\ UNCHANGED << connected, nextId, playerSockets, player1, player2, gameActive,
                    targetWord, targetVector, playerSubmissions, wordList >>
    /\ IF Validate(i, p) # Accepted
       THEN /\ emits' = << Emit("error_message", i, [text |-> Validate(i, p)]) >>
            /\ UNCHANGED inflight
       ELSE /\ HasRoom
            /\ inflight' = Put(inflight, SubmitCalc(i, playerSockets[i], p.text))
            /\ emits' = <<>>

\* Faulty variant: the error of /calculate-vector goes to every socket.
CalcDoneBroadcastsError(t, ok) ==
    /\ t.kind = "submitCalc"
    /\ BagIn(t, inflight)
    /\ last' = Step(IF ok THEN "calcDone" ELSE "calcFailed", t.id, t.role, FALSE)
    /\ UNCHANGED << connected, nextId, playerSockets, player1, player2, gameActive,
                    targetWord, targetVector, playerSubmissions, wordList >>
    /\ IF ok
       THEN /\ inflight' = Put(Take(inflight, t), SubmitCompare(t.id, t.role, t.expr))
            /\ emits' = <<>>
       ELSE /\ inflight' = Take(inflight, t)
            /\ emits' = << Emit("error_message", AllSockets, [text |-> CalcErrorMsg]) >>

\* The handler resumes after await axios.post(/calculate-vector).
CalcDone(t, ok) ==
    /\ t.kind = "submitCalc"
    /\ BagIn(t, inflight)
    /\ last' = Step(IF ok THEN "calcDone" ELSE "calcFailed", t.id, t.role, FALSE)
    /\ UNCHANGED << connected, nextId, playerSockets, player1, player2, gameActive,
                    targetWord, targetVector, playerSubmissions, wordList >>
    /\ IF ok
       THEN /\ inflight' = Put(Take(inflight, t), SubmitCompare(t.id, t.role, t.expr))
            /\ emits' = <<>>
       ELSE /\ inflight' = Take(inflight, t)
            /\ emits' = << Emit("error_message", t.id, [text |-> CalcErrorMsg]) >>

\* Faulty variant: the completion test of step 6 is missing.
StoreAndNeverEnd(t, score) ==
    /\ playerSubmissions' = StoreSubmission(playerSubmissions, t.id,
                                [id |-> t.id, expression |-> t.expr, score |-> score])
    /\ emits' = << Emit("player_submitted", AllSockets,
                        [role |-> t.role, expression |-> t.expr]) >>
    /\ UNCHANGED << gameActive, targetWord, targetVector >>

\* "4. Store submission" to "6. Check if all players have submitted".
StoreAndCheck(t, score) ==
    LET subs == StoreSubmission(playerSubmissions, t.id,
                    [id |-> t.id, expression |-> t.expr, score |-> score])
        announced == << Emit("player_submitted", AllSockets,
                           [role |-> t.role, expression |-> t.expr]) >>
    IN  IF Len(subs) = PlayerCount(playerSockets)
        THEN EndGame(subs, playerSockets, announced)
        ELSE /\ playerSubmissions' = subs
             /\ emits' = announced
             /\ UNCHANGED << gameActive, targetWord, targetVector >>

\* Faulty variant: a stored submission frees both slots.
CompareDoneFreesSlots(t, ok, score) ==
    /\ t.kind = "submitCompare"
    /\ BagIn(t, inflight)
    /\ inflight' = Take(inflight, t)
    /\ last' = Step(IF ok THEN "compareDone" ELSE "compareFailed", t.id, t.role, FALSE)
    /\ UNCHANGED << connected, nextId, playerSockets, wordList >>
    /\ IF ok
       THEN /\ StoreAndCheck(t, score)
            /\ player1' = NoId
            /\ player2' = NoId
       ELSE /\ emits' = << Emit("error_message", t.id, [text |-> CompareErrorMsg]) >>
            /\ UNCHANGED << gameActive, targetWord, targetVector, playerSubmissions,
                            player1, player2 >>

\* The handler resumes after await axios.post(/compare-to-target).
CompareDone(t, ok, score) ==
    /\ t.kind = "submitCompare"
    /\ BagIn(t, inflight)
    /\ inflight' = Take(inflight, t)
    /\ last' = Step(IF ok THEN "compareDone" ELSE "compareFailed", t.id, t.role, FALSE)
    /\ UNCHANGED << connected, nextId, playerSockets, player1, player2, wordList >>
    /\ IF ok
       THEN StoreAndCheck(t, score)
       ELSE /\ emits' = << Emit("error_message", t.id, [text |-> CompareErrorMsg]) >>
            /\ UNCHANGED << gameActive, targetWord, targetVector, playerSubmissions >>

\* -------------------------------------------------------------- force_reset
\* socket.on('force_reset')
ForceReset(i) ==
    /\ i \in connected
    /\ ResetState
    /\ targetWord' = NoWord
    /\ targetVector' = NoVector
    /\ playerSubmissions' = <<>>
    /\ emits' = << Emit("game_reset", AllSockets, [by |-> i]) >>
    /\ last' = Step("force_reset", i, NoRole, FALSE)
    /\ UNCHANGED << connected, nextId, wordList, inflight >>

\* ---------------------------------------------------------------- behaviour
Tasks == BagToSet(inflight)

Next ==
    \/ Connect /\ ClientIdle
    \/ \E i \in Ids : Disconnect(i) /\ ClientIdle
    \/ \E i \in Ids, p \in Payloads : SubmitExpression(i, p) /\ ClientIdle
    \/ \E i \in Ids : ForceReset(i) /\ ClientIdle
    \/ \E ok \in BOOLEAN : InitFetchDone(ok) /\ ClientIdle
    \/ \E ok \in BOOLEAN : StartFetchDone(ok) /\ ClientIdle
    \/ \E w \in Range(ServiceWords), ok \in BOOLEAN : StartEmbedDone(w, ok) /\ ClientIdle
    \/ \E t \in Tasks, ok \in BOOLEAN : CalcDone(t, ok) /\ ClientIdle
    \/ \E t \in Tasks, score \in Scores : CompareDone(t, TRUE, score) /\ ClientIdle
    \/ \E t \in Tasks : CompareDone(t, FALSE, 0) /\ ClientIdle

Spec == Init /\ [][Next]_vars

\* The runs in which every remote call succeeds and nobody disconnects or
\* resets, and every call to /calculate-vector and /compare-to-target that is
\* in flight is eventually answered.
LiveNext ==
    \/ Connect /\ ClientIdle
    \/ \E i \in Ids, p \in Payloads : SubmitExpression(i, p) /\ ClientIdle
    \/ InitFetchDone(TRUE) /\ ClientIdle
    \/ StartFetchDone(TRUE) /\ ClientIdle
    \/ \E w \in Range(ServiceWords) : StartEmbedDone(w, TRUE) /\ ClientIdle
    \/ \E t \in Tasks : CalcDone(t, TRUE) /\ ClientIdle
    \/ \E t \in Tasks, score \in Scores : CompareDone(t, TRUE, score) /\ ClientIdle

LiveSpec ==
    /\ Init
    /\ [][LiveNext]_vars
    /\ WF_vars(\E t \in Tasks : CalcDone(t, TRUE))
    /\ WF_vars(\E t \in Tasks, score \in Scores : CompareDone(t, TRUE, score))

\* io.on('connection') run for a socket whose id is whatever the transport
\* reports, an id already in the role table included: the handler takes
\* socket.id as it comes and has no test of its own for a known id.
Connection(id) ==
    LET role == AssignedRole
        assigned == << Emit("assign_role", id, [role |-> role]) >>
    IN  /\ connected' = connected \cup {id}
        /\ UNCHANGED nextId
        /\ playerSockets' = [playerSockets EXCEPT ![id] = role]
        /\ player1' = IF role = P1 THEN id ELSE player1
        /\ player2' = IF role = P2 THEN id ELSE player2
        /\ last' = Step("connect", id, role, FALSE)
        /\ IF PlayerCount(playerSockets') = MAX_PLAYERS /\ ~gameActive
           THEN /\ HasRoom
                /\ StartGame(assigned)
           ELSE /\ emits' = assigned \o ConnectNotice(id, role, PlayerCount(playerSockets'))
                /\ UNCHANGED << gameActive, targetWord, targetVector,
                                playerSubmissions, wordList, inflight >>

\* The role assignment on its own: connections with any id, disconnects,
\* resets, and the round starts the connections trigger.
RegistryNext ==
    \/ \E id \in Ids : Connection(id) /\ ClientIdle
    \/ \E i \in Ids : Disconnect(i) /\ ClientIdle
    \/ \E i \in Ids : ForceReset(i) /\ ClientIdle
    \/ \E ok \in BOOLEAN : InitFetchDone(ok) /\ ClientIdle
    \/ \E ok \in BOOLEAN : StartFetchDone(ok) /\ ClientIdle
    \/ \E w \in Range(ServiceWords), ok \in BOOLEAN : StartEmbedDone(w, ok) /\ ClientIdle

RegistrySpec == Init /\ [][RegistryNext]_vars

\* ------------------------------------------------- browser client: handlers
\* The history after a handler has run for `event`.
Seen(event) == [seen EXCEPT !.event = event, !.emitted = FALSE]

\* socket.on('connect')
OnConnect ==
    /\ client' = SetInputActive(ClearGameAreas(client), FALSE)
    /\ seen' = Seen("connect")

\* socket.on('disconnect')
OnDisconnect ==
    /\ client' = SetInputActive([client EXCEPT !.myRole = NoRole,
                                               !.gameActive = FALSE], FALSE)
    /\ seen' = Seen("disconnect")

\* socket.on('assign_role')
OnAssignRole(role) ==
    /\ client' = IF role = SPECTATOR
                 THEN SetInputActive([client EXCEPT !.myRole = role], FALSE)
                 ELSE [client EXCEPT !.myRole = role]
    /\ seen' = Seen("assign_role")

\* socket.on('spectator_info')
OnSpectatorInfo ==
    /\ client' = SetInputActive(client, FALSE)
    /\ seen' = Seen("spectator_info")

\* socket.on('waiting_for_player')
OnWaitingForPlayer ==
    /\ client' = ClearGameAreas(SetInputActive(client, FALSE))
    /\ seen' = Seen("waiting_for_player")

\* socket.on('game_start')
OnGameStart ==
    /\ client' = SetInputActive([ClearGameAreas(client) EXCEPT !.gameActive = TRUE],
                                IsPlayer(client.myRole))
    /\ seen' = [Seen("game_start") EXCEPT !.submitted = FALSE,
                                          !.acknowledged = FALSE]

\* socket.on('player_submitted'): role is data.role. mySubmissionExists is
\* the constant false of the source.
OnPlayerSubmitted(role) ==
    LET mySubmissionExists == FALSE
    IN  /\ client' = IF client.myRole = role
                     THEN SetInputActive(client, FALSE)
                     ELSE IF client.gameActive /\ IsPlayer(client.myRole)
                                               /\ ~mySubmissionExists
                          THEN SetInputActive(client, TRUE)
                          ELSE client
        /\ seen' = [Seen("player_submitted") EXCEPT
                       !.acknowledged = @ \/ (client.myRole = role /\ seen.submitted)]

\* socket.on('game_over')
OnGameOver ==
    /\ client' = SetInputActive([client EXCEPT !.gameActive = FALSE], FALSE)
    /\ seen' = Seen("game_over")

\* socket.on('player_left')
OnPlayerLeft ==
    /\ client' = SetInputActive([client EXCEPT !.gameActive = FALSE], FALSE)
    /\ seen' = Seen("player_left")

\* socket.on('game_reset')
OnGameReset ==
    /\ client' = [SetInputActive([ClearGameAreas(client) EXCEPT !.gameActive = FALSE],
                                 FALSE) EXCEPT !.myRole = NoRole]
    /\ seen' = Seen("game_reset")

\* socket.on('error_message')
OnErrorMessage ==
    /\ client' = IF client.gameActive /\ IsPlayer(client.myRole)
                 THEN SetInputActive(client, TRUE)
                 ELSE client
    /\ seen' = Seen("error_message")

\* The user edits the expression input, which a disabled input does not allow.
TypeExpression(text) ==
    /\ ~client.disabled
    /\ client' = [client EXCEPT !.value = text]
    /\ seen' = Seen("input")

\* handleSubmitExpression(), run by a click on the submit button or by Enter
\* in the input; a disabled button or input delivers neither.
HandleSubmitExpression ==
    /\ ~client.disabled
    /\ IF ~client.gameActive \/ ~IsPlayer(client.myRole)
       THEN /\ UNCHANGED client
            /\ seen' = Seen("submit")
       ELSE LET expression == Trim(client.value)
            IN  IF expression # NoText
                THEN /\ client' = SetInputActive(client, FALSE)
                     /\ seen' = [Seen("submit") EXCEPT !.submitted = TRUE,
                                                       !.emitted = TRUE]
                ELSE /\ UNCHANGED client
                     /\ seen' = Seen("submit")

\* A step of the browser leaves the server as it is.
ServerIdle == UNCHANGED vars

\* The browser on its own: the server's events reach it in any order, and
\* the user types and submits whenever the page lets them.
ClientNext ==
    \/ OnConnect /\ ServerIdle
    \/ OnDisconnect /\ ServerIdle
    \/ \E role \in {P1, P2, SPECTATOR} : OnAssignRole(role) /\ ServerIdle
    \/ OnSpectatorInfo /\ ServerIdle
    \/ OnWaitingForPlayer /\ ServerIdle
    \/ OnGameStart /\ ServerIdle
    \/ \E role \in {P1, P2} : OnPlayerSubmitted(role) /\ ServerIdle
    \/ OnGameOver /\ ServerIdle
    \/ OnPlayerLeft /\ ServerIdle
    \/ OnGameReset /\ ServerIdle
    \/ OnErrorMessage /\ ServerIdle
    \/ \E text \in InputTexts : TypeExpression(text) /\ ServerIdle
    \/ HandleSubmitExpression /\ ServerIdle

ClientSpec == Init /\ [][ClientNext]_<< vars, clientVars >>

\* ------------------------------------------------------------------- claims
Holders(role) == { i \in Ids : playerSockets[i] = role }
StartInFlight == \E t \in Tasks : t.kind \in {"startFetch", "startEmbed"}

\* C1: at most one participant holds Player 1 and at most one holds Player 2,
\* whatever events have happened, and a connection that has arrived while
\* other participants held both slots is a Spectator.
C1_AtMostTwoSlotHolders ==
    /\ Cardinality(Holders(P1)) <= 1
    /\ Cardinality(Holders(P2)) <= 1
    /\ (last.kind = "connect" /\ Holders(P1) \ {last.id} # {}
                              /\ Holders(P2) \ {last.id} # {})
          => (last.role = SPECTATOR /\ playerSockets[last.id] = SPECTATOR)

\* A connection has arrived while both slots were held and is a Spectator.
C1_Witness ==
    /\ last.kind = "connect"
    /\ playerSockets[last.id] = SPECTATOR
    /\ Holders(P1) # {} /\ Holders(P2) # {}

\* C2: a submission is stored and announced at most once per participant and
\* round: a completing submit announces player_submitted only for a
\* participant with no stored submission, and a stored submission keeps its
\* value as long as it is stored.
C2_StoredAndAnnouncedOnce ==
    [][ /\ (last'.kind = "compareDone" /\ HasEmit(emits', "player_submitted"))
            => ~HasSubmission(playerSubmissions, last'.id)
        /\ \A i \in Ids :
              (HasSubmission(playerSubmissions, i) /\ HasSubmission(playerSubmissions', i))
                  => SubmissionOf(playerSubmissions', i) = SubmissionOf(playerSubmissions, i)
      ]_vars

\* C3: a game_over caused by a completing submit is emitted only when every
\* participant holding Player 1 or Player 2 has a stored submission, the one
\* just stored included.
C3_FinalizedOnlyWhenAllSubmitted ==
    [][ (last'.kind = "compareDone" /\ HasEmit(emits', "game_over"))
          => \A i \in CurrentPlayers(playerSockets) :
                i = last'.id \/ HasSubmission(playerSubmissions, i) ]_vars

\* C4 as stated: the active flag is set only if the target word and the
\* target vector are both non-null.
C4_ActiveOnlyWithTarget ==
    gameActive => (targetWord # NoWord /\ targetVector # NoVector)

\* C4 as amended: the active flag is set only if a round start is still in
\* flight or the target word and the target vector are both non-null.
C4_ActiveOnlyWithTargetOrStarting ==
    (gameActive /\ ~StartInFlight) => (targetWord # NoWord /\ targetVector # NoVector)

\* A round is active with its target set and no start in flight.
C4_Witness ==
    /\ gameActive /\ ~StartInFlight
    /\ targetWord # NoWord /\ targetVector # NoVector
    /\ last.kind = "startEmbedDone"

\* C5: a submit's remote call that completes right after a reset, after the
\* disconnect of its submitter or after the end of the round (all of which
\* happened while it was in flight) stores nothing, announces nothing and
\* finalizes nothing.
C5_StaleSubmitDiscarded ==
    [][ ( /\ last'.kind \in {"calcDone", "calcFailed", "compareDone", "compareFailed"}
          /\ \/ last.kind = "force_reset"
             \/ (last.kind = "disconnect" /\ last.id = last'.id)
             \/ HasEmit(emits, "game_over") )
          => /\ playerSubmissions' = playerSubmissions
             /\ ~HasEmit(emits', "player_submitted")
             /\ ~HasEmit(emits', "game_over") ]_vars

\* C6: a round start's remote call that completes right after a reset or a
\* round-ending disconnect (which happened while it was in flight) changes
\* neither the target word, the target vector nor the active flag and emits
\* no game_start.
C6_StaleStartDiscarded ==
    [][ ( /\ last'.kind \in {"startFetchDone", "startEmbedDone", "startEmbedFailed"}
          /\ \/ last.kind = "force_reset"
             \/ (last.kind = "disconnect" /\ HasEmit(emits, "game_over")) )
          => /\ UNCHANGED << targetWord, targetVector, gameActive >>
             /\ ~HasEmit(emits', "game_start") ]_vars

\* C7: when game_start has just been broadcast the round is active and the
\* target word and vector are both non-null, and a completed start leaves
\* the target word and the target vector both set or both null.
C7_GameStartOnlyWhenActive ==
    /\ HasEmit(emits, "game_start")
          => (gameActive /\ targetWord # NoWord /\ targetVector # NoVector)
    /\ last.kind \in {"startEmbedDone", "startEmbedFailed"}
          => ((targetWord = NoWord) <=> (targetVector = NoVector))

\* C8: right after the disconnect of a slot-holder during an active round,
\* player_left and then game_over have been broadcast, the round is inactive
\* and the slot is free: nobody holds it and the next connection would be
\* assigned it.
C8_DisconnectEndsRound ==
    (last.kind = "disconnect" /\ last.role \in {P1, P2} /\ last.active)
      => /\ EmitTypes(emits) = << "player_left", "game_over" >>
         /\ emits[1].to = AllSockets /\ emits[2].to = AllSockets
         /\ ~gameActive
         /\ playerSockets[last.id] = NoRole
         /\ Holders(last.role) = {}
         /\ (last.role = P1 => player1 = NoId)
         /\ (last.role = P2 => player2 = NoId)
         /\ AssignedRole = last.role

\* Player 1 has left an active round; the next connection would be Player 1.
C8_Witness ==
    /\ last.kind = "disconnect" /\ last.role = P1 /\ last.active
    /\ EmitTypes(emits) = << "player_left", "game_over" >>
    /\ emits[1].data.role = P1
    /\ ~gameActive
    /\ AssignedRole = P1

\* C9: right after a force_reset the round is inactive, the role table and
\* both slots are empty, the submissions are empty, the target word and
\* vector are null, and game_reset has been broadcast.
C9_ResetClearsEverything ==
    last.kind = "force_reset"
      => /\ ~gameActive
         /\ \A i \in Ids : playerSockets[i] = NoRole
         /\ player1 = NoId /\ player2 = NoId
         /\ playerSubmissions = <<>>
         /\ targetWord = NoWord /\ targetVector = NoVector
         /\ EmitTypes(emits) = << "game_reset" >>
         /\ emits[1].to = AllSockets

\* A reset has happened while a round start was in flight.
C9_Witness ==
    /\ last.kind = "force_reset"
    /\ StartInFlight
    /\ Cardinality(connected) >= 2

\* C10: a submit from a participant with a stored submission sends one
\* error_message to that participant alone and changes nothing else.
C10_DuplicateSubmitRejected ==
    [][ (last'.kind = "submit" /\ HasSubmission(playerSubmissions, last'.id))
          => /\ EmitTypes(emits') = << "error_message" >>
             /\ emits'[1].to = last'.id
             /\ UNCHANGED << connected, nextId, playerSockets, player1, player2,
                             gameActive, targetWord, targetVector,
                             playerSubmissions, wordList, inflight >> ]_vars

\* A slot-holder of an active round has submitted again after its submission
\* was stored.
C10_Witness ==
    /\ last.kind = "submit"
    /\ gameActive
    /\ HasSubmission(playerSubmissions, last.id)
    /\ EmitTypes(emits) = << "error_message" >>
    /\ emits[1].data.text = AlreadySubmittedMsg

\* C11: a connect that arrives while a round start is in flight or while the
\* round is active triggers no round start: it issues no remote call and
\* leaves the active flag alone.
C11_NoSecondStart ==
    [][ (last'.kind = "connect" /\ (StartInFlight \/ gameActive))
          => UNCHANGED << inflight, gameActive >> ]_vars

\* A submit of participant i has been accepted: its remote calls are in flight
\* or its submission is stored.
Submitted(i) ==
    \/ HasSubmission(playerSubmissions, i)
    \/ \E t \in Tasks : t.id = i /\ t.kind \in {"submitCalc", "submitCompare"}

BothSubmitted ==
    /\ gameActive
    /\ PlayerCount(playerSockets) = MAX_PLAYERS
    /\ \A i \in CurrentPlayers(playerSockets) : Submitted(i)

\* C12: in the runs where every remote call succeeds and nobody disconnects
\* or resets, once the round is active and both slot-holders have had a valid
\* expression accepted, game_over is eventually broadcast with the round
\* inactive.
C12_BothSubmitLeadsToGameOver ==
    BothSubmitted ~> (HasEmit(emits, "game_over") /\ ~gameActive)

\* The second slot-holder's submission has completed and ended the round.
C12_Witness ==
    /\ last.kind = "compareDone"
    /\ EmitTypes(emits) = << "player_submitted", "game_over" >>
    /\ Len(emits[2].data.results) = MAX_PLAYERS
    /\ ~gameActive

\* The game_over payload of a round that a slot-holder's disconnect has just
\* ended with its target vector set.
EndedByDisconnect ==
    /\ last.kind = "disconnect" /\ last.role \in {P1, P2} /\ last.active
    /\ EmitTypes(emits) = << "player_left", "game_over" >>
    /\ emits[2].data.reason # MissingVectorMsg

\* C13: when a slot-holder's disconnect has ended a round, the results hold
\* one entry for each slot-holder of that round (the one who left and every
\* one who stays), and a remaining slot-holder with an entry is declared the
\* winner.
C13_ResultsListEverySlotHolder ==
    EndedByDisconnect
      => LET over == emits[2].data
         IN  /\ Len(over.results) = 1 + PlayerCount(playerSockets)
             /\ \A j \in CurrentPlayers(playerSockets) :
                   (\E k \in 1 .. Len(over.results) :
                        over.results[k].role = playerSockets[j])
                     => over.reason = playerSockets[j] \o " wins!"

\* C14: right after a round has ended, by a completing submit that finalized
\* it or by the disconnect of a slot-holder while the active flag was set, the
\* round is inactive and the target word, the target vector and the
\* submissions are cleared.
C14_RoundEndClearsRound ==
    ( \/ (last.kind = "compareDone" /\ HasEmit(emits, "game_over"))
      \/ (last.kind = "disconnect" /\ last.role \in {P1, P2} /\ last.active) )
      => /\ ~gameActive
         /\ targetWord = NoWord
         /\ targetVector = NoVector
         /\ playerSubmissions = <<>>

\* The payloads a submit is not rejected for.
ValidPayloads == { p \in Payloads : ~InvalidExpression(p) }

\* Participant i is a slot-holder of an active round with its target vector
\* set and has no stored submission.
FreeToSubmit(i) ==
    /\ gameActive
    /\ playerSockets[i] \in {P1, P2}
    /\ targetVector # NoVector
    /\ ~HasSubmission(playerSubmissions, i)

\* C15: a continuation whose call to /calculate-vector or /compare-to-target
\* has failed sends one error_message to the sender alone, stores nothing and
\* changes nothing but the call that has ended, and the sender, if still a
\* slot-holder of the round without a stored submission, has a valid submit
\* accepted.
C15_FailedCallLeavesSenderFree ==
    [][ last'.kind \in {"calcFailed", "compareFailed"}
          => /\ EmitTypes(emits') = << "error_message" >>
             /\ emits'[1].to = last'.id
             /\ UNCHANGED << connected, nextId, playerSockets, player1, player2,
                             gameActive, targetWord, targetVector,
                             playerSubmissions, wordList >>
             /\ BagCardinality(inflight') = BagCardinality(inflight) - 1
             /\ \A i \in Ids, p \in ValidPayloads :
                   (i = last'.id /\ FreeToSubmit(i)') => Validate(i, p)' = Accepted ]_vars

\* The compare call of a slot-holder has failed in an active round and the
\* slot-holder may submit again.
C15_Witness ==
    /\ last.kind = "compareFailed"
    /\ EmitTypes(emits) = << "error_message" >>
    /\ FreeToSubmit(last.id)
    /\ \A p \in ValidPayloads : Validate(last.id, p) = Accepted

\* C16: a submit either is rejected (one error_message to the sender alone,
\* no state changed) or comes from a slot-holder of an active round whose
\* target vector is present and carries a non-blank string, which is the
\* expression of the one remote call it issues. So a submit is rejected
\* whenever the round is not active, the sender is a Spectator or absent from
\* the role table, the expression is not a non-blank string, or the target
\* vector is absent.
C16_InvalidSubmitRejected ==
    [][ last'.kind = "submit"
          => /\ UNCHANGED << connected, nextId, playerSockets, player1, player2,
                             gameActive, targetWord, targetVector,
                             playerSubmissions, wordList >>
             /\ \/ /\ EmitTypes(emits') = << "error_message" >>
                   /\ emits'[1].to = last'.id
                   /\ UNCHANGED inflight
                \/ /\ gameActive
                   /\ \E i \in Ids, p \in ValidPayloads :
                         /\ i = last'.id
                         /\ playerSockets[i] \in {P1, P2}
                         /\ inflight' = Put(inflight, SubmitCalc(i, playerSockets[i], p.text))
                   /\ targetVector # NoVector
                   /\ emits' = <<>> ]_vars

\* A slot-holder of an active round with its vector set has submitted a blank
\* or non-string expression and was rejected for it.
C16_Witness ==
    /\ last.kind = "submit" /\ last.role \in {P1, P2}
    /\ gameActive /\ targetVector # NoVector
    /\ EmitTypes(emits) = << "error_message" >>
    /\ emits[1].to = last.id
    /\ emits[1].data.text = InvalidExpressionMsg

\* C17: a connect that starts a round with the word list empty issues one
\* word-list fetch and nothing else; when that fetch has returned and the list
\* is still empty, the start ends there: an error_message is broadcast, the
\* round is inactive, no call is issued, and the target word, the target
\* vector and the slot assignments are as before.
C17_EmptyWordListAbortsStart ==
    [][ /\ (last'.kind = "connect" /\ ~gameActive /\ gameActive' /\ wordList = <<>>)
            => /\ inflight' = Put(inflight, StartFetch)
               /\ UNCHANGED << targetWord, targetVector >>
        /\ (last'.kind = "startFetchDone" /\ wordList' = <<>>)
            => /\ EmitTypes(emits') = << "error_message" >>
               /\ emits'[1].to = AllSockets
               /\ emits'[1].data.text = WordListErrorMsg
               /\ ~gameActive'
               /\ inflight' = Take(inflight, StartFetch)
               /\ UNCHANGED << targetWord, targetVector, player1, player2,
                               playerSockets >> ]_vars

\* The fetch of a round start has returned no list while both slots are held.
C17_Witness ==
    /\ last.kind = "startFetchDone"
    /\ wordList = <<>>
    /\ EmitTypes(emits) = << "error_message" >>
    /\ player1 # NoId /\ player2 # NoId
    /\ ~gameActive /\ targetWord = NoWord /\ targetVector = NoVector

\* C18: when the /get-embedding call of a round start has failed or returned
\* no vector, the round is inactive, the target word and the target vector
\* are null, an error_message has been broadcast, and the slot assignments
\* are as before.
C18_EmbeddingFailureAbortsStart ==
    [][ last'.kind = "startEmbedFailed"
          => /\ ~gameActive'
             /\ targetWord' = NoWord
             /\ targetVector' = NoVector
             /\ EmitTypes(emits') = << "error_message" >>
             /\ emits'[1].to = AllSockets
             /\ emits'[1].data.text = EmbeddingErrorMsg
             /\ UNCHANGED << player1, player2, playerSockets >> ]_vars

\* The vector fetch of a round start has failed while both slots are held.
C18_Witness ==
    /\ last.kind = "startEmbedFailed"
    /\ player1 # NoId /\ player2 # NoId
    /\ ~gameActive /\ targetWord = NoWord /\ targetVector = NoVector
    /\ EmitTypes(emits) = << "error_message" >>

\* The round starts in flight, counted with their multiplicity.
StartsInFlight ==
    BagCardinality([t \in { u \in Tasks : u.kind \in {"startFetch", "startEmbed"} }
                       |-> inflight[t]])

\* C19: the connector that takes the first slot receives assign_role and then
\* waiting_for_player; the connector that fills the second slot while no
\* round is active receives assign_role and its connect puts one round start
\* in flight; and that start, when its vector has arrived, broadcasts one
\* game_start carrying the chosen target word and exactly the two
\* slot-holders with their roles.
C19_TwoConnectsStartOneRound ==
    [][ /\ (last'.kind = "connect" /\ last'.role \in {P1, P2}
                                   /\ PlayerCount(playerSockets') < MAX_PLAYERS)
            => /\ emits' = << Emit("assign_role", last'.id, [role |-> last'.role]),
                              Emit("waiting_for_player", last'.id, NoData) >>
               /\ UNCHANGED << gameActive, inflight >>
        /\ (last'.kind = "connect" /\ last'.role \in {P1, P2} /\ ~gameActive
                                   /\ PlayerCount(playerSockets') = MAX_PLAYERS)
            => /\ emits' = << Emit("assign_role", last'.id, [role |-> last'.role]) >>
               /\ gameActive'
               /\ StartsInFlight' = StartsInFlight + 1
        /\ last'.kind = "startEmbedDone"
            => /\ EmitTypes(emits') = << "game_start" >>
               /\ emits'[1].to = AllSockets
               /\ emits'[1].data.targetWord = targetWord'
               /\ targetWord' \in Range(ServiceWords)
               /\ player1' # NoId /\ player2' # NoId
               /\ emits'[1].data.players = { [id |-> player1', role |-> P1],
                                             [id |-> player2', role |-> P2] } ]_vars

\* C20: a step that leaves two slots filled and no round in progress triggers
\* a round start: a connect that finds the round inactive, and the completing
\* submit that has just finalized a round with both slot-holders still there,
\* set the active flag and put one more round start in flight.
C20_StartWheneverTwoSlotsIdle ==
    [][ ( /\ PlayerCount(playerSockets') = MAX_PLAYERS
          /\ \/ (last'.kind = "connect" /\ ~gameActive)
             \/ (last'.kind = "compareDone" /\ HasEmit(emits', "game_over")) )
          => /\ gameActive'
             /\ StartsInFlight' = StartsInFlight + 1 ]_vars

\* The position of the winning submission: strictly above every earlier one
\* and not below any later one (the strictly highest score, ties to the first
\* in insertion order).
WinningIndex(subs) ==
    CHOOSE w \in 1 .. Len(subs) :
        /\ \A j \in 1 .. (w - 1) : subs[j].score < subs[w].score
        /\ \A j \in (w + 1) .. Len(subs) : subs[j].score <= subs[w].score

\* The game_over payload the claim describes for the stored submissions subs:
\* the winner's role, one entry per submission with the submitter's role, and
\* the round's target word.
ListedGameOver(subs, tbl, word) ==
    [reason |-> tbl[subs[WinningIndex(subs)].id] \o " wins!",
     results |-> [k \in 1 .. Len(subs) |->
                     [role |-> tbl[subs[k].id],
                      expression |-> subs[k].expression,
                      score |-> ToFixed4(subs[k].score)]],
     targetWord |-> word]

\* C21: the game_over of a finalization names as winner the submitter with
\* the strictly highest score (ties to the first stored), lists every stored
\* submission (the one just stored, with the score just answered, included)
\* with its submitter's role, its expression and its score, and carries the
\* round's target word.
C21_WinnerIsFirstHighestScore ==
    [][ (last'.kind = "compareDone" /\ HasEmit(emits', "game_over"))
          => \E score \in Scores :
                emits'[2].data =
                    ListedGameOver(
                        StoreSubmission(playerSubmissions, last'.id,
                            [id |-> last'.id, expression |-> emits'[1].data.expression,
                             score |-> score]),
                        playerSockets, targetWord) ]_vars

\* The participants other than i that hold role (a connect leaves their
\* entries as they were, so these are the holders the connect of i has found).
OtherHolders(role, i) == Holders(role) \ {i}

\* C22: the participant that has just connected is Player 1 if nobody else
\* holds that slot, otherwise Player 2 if nobody else holds that slot,
\* otherwise Spectator; it has been told so, and the slot it was given points
\* at it.
C22_FirstFreeSlotAssigned ==
    last.kind = "connect"
      => LET role == IF OtherHolders(P1, last.id) = {} THEN P1
                     ELSE IF OtherHolders(P2, last.id) = {} THEN P2
                     ELSE SPECTATOR
         IN  /\ last.role = role
             /\ playerSockets[last.id] = role
             /\ emits[1] = Emit("assign_role", last.id, [role |-> role])
             /\ (role = P1 => player1 = last.id)
             /\ (role = P2 => player2 = last.id)
             /\ (role # P1 => player1 \in OtherHolders(P1, last.id))
             /\ (role = SPECTATOR => player2 \in OtherHolders(P2, last.id))

\* Player 1 has left while Player 2 stayed, and the next connection has become
\* Player 1.
C22_Witness ==
    /\ last.kind = "connect" /\ last.role = P1
    /\ player1 = last.id
    /\ player2 # NoId /\ player2 < last.id

C24_RoleFixedWhileConnected ==
    [][ \A i \in connected \cap connected' :
            \/ playerSockets'[i] = playerSockets[i]
            \/ (last'.kind = "force_reset" /\ playerSockets'[i] = NoRole) ]_vars

\* A slot-holder has left and the Spectator that stays is still a Spectator
\* with the slot free.
C24_Witness ==
    /\ last.kind = "disconnect" /\ last.role \in {P1, P2}
    /\ Holders(last.role) = {}
    /\ Holders(SPECTATOR) \cap connected # {}

\* C25: a completing submit that finalizes the round leaves the role table
\* and both slots as they were, and a disconnect that ends the round removes
\* the leaver's entry from the role table and no other, and frees no slot but
\* the leaver's.
C25_RoundEndKeepsRoles ==
    [][ /\ (last'.kind = "compareDone" /\ HasEmit(emits', "game_over"))
            => UNCHANGED << playerSockets, player1, player2 >>
        /\ (last'.kind = "disconnect" /\ HasEmit(emits', "game_over"))
            => /\ playerSockets' = [playerSockets EXCEPT ![last'.id] = NoRole]
               /\ player1' = (IF player1 = last'.id THEN NoId ELSE player1)
               /\ player2' = (IF player2 = last'.id THEN NoId ELSE player2) ]_vars

\* A round has been finalized with both slot-holders and a Spectator in the
\* role table.
C25_Witness ==
    /\ last.kind = "compareDone"
    /\ HasEmit(emits, "game_over")
    /\ player1 # NoId /\ player2 # NoId
    /\ Holders(SPECTATOR) # {}

\* C26: a connect that is given the Spectator role sends spectator_info to
\* the connecting socket, and when the round is active at that moment the
\* message carries the target word and the submissions stored so far.
C26_SpectatorIsInformed ==
    [][ (last'.kind = "connect" /\ last'.role = SPECTATOR)
          => \E k \in 1 .. Len(emits') :
                /\ emits'[k].type = "spectator_info"
                /\ emits'[k].to = last'.id
                /\ gameActive => /\ emits'[k].data.targetWord = targetWord
                                 /\ emits'[k].data.submissions = playerSubmissions ]_vars

\* C27: no event emitted other than game_over carries a score:
\* player_submitted has a role and an expression and nothing else, and the
\* submissions shown in a spectator_info have no score.
C27_NoScoreBeforeGameOver ==
    \A k \in 1 .. Len(emits) :
        /\ emits[k].type = "player_submitted"
              => DOMAIN emits[k].data = {"role", "expression"}
        /\ emits[k].type = "spectator_info"
              => \A j \in 1 .. Len(emits[k].data.submissions) :
                    "score" \notin DOMAIN emits[k].data.submissions[j]
        /\ emits[k].type \notin {"player_submitted", "spectator_info", "game_over"}
              => "score" \notin DOMAIN emits[k].data

\* C28: the round is active only if the Player 1 slot and the Player 2 slot
\* are both held, each by a participant that is in the role table with that
\* role.
C28_ActiveOnlyWithBothSlots ==
    gameActive
      => /\ player1 # NoId /\ playerSockets[player1] = P1
         /\ player2 # NoId /\ playerSockets[player2] = P2

\* A Spectator has left an active round, which goes on with both slots held.
C28_Witness ==
    /\ gameActive
    /\ last.kind = "disconnect" /\ last.role = SPECTATOR
    /\ player1 # NoId /\ player2 # NoId

\* The role-table entries a slot pointer stands for.
Pointed(slot) == IF slot = NoId THEN {} ELSE {slot}

\* C29: the slot pointers and the role table agree: the role-table entries
\* with role Player 1 are exactly the id stored as Player 1 (none when the
\* slot is free), and likewise for Player 2.
C29_SlotsAgreeWithRoleTable ==
    /\ Holders(P1) = Pointed(player1)
    /\ Holders(P2) = Pointed(player2)

\* A later connection has taken the vacated Player 1 slot beside the Player 2
\* of before.
C29_Witness ==
    /\ player2 # NoId /\ player1 > player2
    /\ Holders(P1) = {player1} /\ Holders(P2) = {player2}
    /\ Cardinality(connected) < nextId - 1

\* C30: at most one round start is in flight at any time: no state holds two
\* pending word-list or vector fetches of startGame, whatever the order of
\* connect, disconnect and reset events and of the start's remote calls.
C30_AtMostOneStartInFlight == StartsInFlight <= 1

\* The game_over events among es.
GameOvers(es) == { k \in 1 .. Len(es) : es[k].type = "game_over" }

\* C31: game_over is broadcast at most once per round: a step broadcasts at
\* most one game_over, and only when the round was active before the step and
\* is inactive after it. A completing submit that reaches endGame() while the
\* round is already inactive broadcasts only its player_submitted, keeps the
\* submission it has just stored and leaves the active flag, the target word
\* and the target vector as they were.
C31_GameOverOncePerRound ==
    [][ /\ Cardinality(GameOvers(emits')) <= 1
        /\ GameOvers(emits') # {} => (gameActive /\ ~gameActive')
        /\ (last'.kind = "compareDone" /\ ~gameActive)
              => /\ EmitTypes(emits') = << "player_submitted" >>
                 /\ UNCHANGED << gameActive, targetWord, targetVector >>
                 /\ \E score \in Scores :
                       playerSubmissions' =
                           StoreSubmission(playerSubmissions, last'.id,
                               [id |-> last'.id,
                                expression |-> emits'[1].data.expression,
                                score |-> score]) ]_vars

\* A completing submit has stored the last missing submission of a round that
\* was no longer active: endGame() was called and returned at once.
C31_Witness ==
    /\ last.kind = "compareDone"
    /\ ~gameActive
    /\ EmitTypes(emits) = << "player_submitted" >>
    /\ Len(playerSubmissions) = PlayerCount(playerSockets)

\* The submissions endGame() has worked on in the step just taken: those
\* stored before a disconnect, and those stored before a completing submit
\* together with the one it has stored (the score read back from its entry of
\* the results).
EndedSubmissions(before, step, over) ==
    IF step.kind = "disconnect"
    THEN { before }
    ELSE { StoreSubmission(before, step.id, sub) :
             sub \in { s \in [id : {step.id}, expression : StringPayloads, score : Scores] :
                         \E k \in 1 .. Len(over.results) :
                            /\ over.results[k].expression = s.expression
                            /\ over.results[k].score = ToFixed4(s.score)
                            /\ Len(StoreSubmission(before, step.id, s)) = Len(over.results)
                            /\ k \in SubIndex(StoreSubmission(before, step.id, s), step.id) } }

\* C32: when a round ends with at least one stored submission, the game_over
\* names as winner the role the top-scoring submitter had in the round, also
\* when that submitter is the participant whose disconnect has ended it.
C32_TopScorerNamedWinner ==
    [][ \A k \in GameOvers(emits') :
           Len(emits'[k].data.results) >= 1
             => \E subs \in EndedSubmissions(playerSubmissions, last', emits'[k].data) :
                   emits'[k].data.reason =
                       playerSockets[subs[WinningIndex(subs)].id] \o " wins!" ]_vars

\* C33: the disconnect of a Spectator, and the disconnect of any participant
\* while no round is active, leave the active flag, the target word, the
\* target vector and the submissions unchanged and emit nothing.
C33_QuietDisconnect ==
    [][ (last'.kind = "disconnect" /\ (last'.role = SPECTATOR \/ ~gameActive))
          => /\ UNCHANGED << gameActive, targetWord, targetVector, playerSubmissions >>
             /\ emits' = <<>> ]_vars

\* A Spectator has left an active round that holds a stored submission.
C33_Witness ==
    /\ last.kind = "disconnect" /\ last.role = SPECTATOR
    /\ gameActive /\ targetWord # NoWord
    /\ Len(playerSubmissions) >= 1
    /\ emits = <<>>

\* C34: in the browser client, once the player's own submission has been
\* acknowledged by a player_submitted carrying the client's own role, the
\* expression input stays disabled and the client emits no further
\* submit_expression until the next game_start, whatever events arrive in
\* between.
C34_InputStaysDisabledAfterAck ==
    seen.acknowledged => (client.disabled /\ ~seen.emitted)

====
